---- MODULE Spec2Model ----
(***************************************************************************)
(* Route planner of src/app.py: navigability grid, safety map, nearest    *)
(* water cell resolver (get_water_idx) and the A* search (astar_search).  *)
(*                                                                         *)
(* Real numbers are fixed-point integers in millionths (1.0 = 1000000).   *)
(* Sums of costs are exact; the rounding of IEEE doubles, which can order *)
(* two sums that are equal as real numbers, is not modelled.              *)
(* Latitudes and longitudes are counted in half grid steps, so that the   *)
(* sample of row i lies at 2*i and a request may fall between two samples.*)
(***************************************************************************)
EXTENDS Integers, Sequences, FiniteSets, TLC

\* ------------------------------------------------------------------ bounds
Rows == 2
Cols == 3
MaxLand == 2
DeepRows == 7
DeepCols == 4

\* ------------------------------------------------------- program constants
OrthStep == 1000000
DiagStep == 1414000
Masked == 1000000000

VARIABLES
    shape,          \* grid.shape: <<number of rows, number of columns>>
    u_nan,          \* cells where subset.water_u is NaN
    v_nan,          \* cells where subset.water_v is NaN
    s_lon, s_lat,   \* requested start coordinate
    e_lon, e_lat,   \* requested goal coordinate
    grid,           \* cell -> 1 (land) or 0 (water)
    safety_map,     \* cell -> exp(-dist_from_land / 0.5)
    iy_s, ix_s,     \* nearest sample index of the start
    iy_e, ix_e,     \* nearest sample index of the goal
    s_idx, e_idx,   \* start and goal cell handed to astar_search
    oheap,          \* entries <<f, cell>> of the heap, in order of insertion
    came_from,      \* cell -> predecessor
    g_score,        \* cell -> best cost found so far
    popped,         \* the entry heappop returned last
    current,        \* the cell of that entry
    closed,         \* cells that were popped and expanded
    path_indices,   \* what astar_search returned
    path_lon, path_lat,
    outcome,        \* "none", "success" (st.success) or "not_found" (st.error)
    pc

vars == <<shape, u_nan, v_nan, s_lon, s_lat, e_lon, e_lat, grid, safety_map,
          iy_s, ix_s, iy_e, ix_e, s_idx, e_idx, oheap, came_from, g_score,
          popped, current, closed, path_indices, path_lon, path_lat, outcome, pc>>

\* ---------------------------------------------------------------- numerics
\* sqrt(d2) in millionths, for d2 = 0 .. 100 (np.sqrt, np.linalg.norm,
\* distance_transform_edt all take the root of an integer squared distance).
SqrtTable ==
    <<
       0, 1000000, 1414214, 1732051, 2000000, 2236068, 2449490, 2645751,
       2828427, 3000000, 3162278, 3316625, 3464102, 3605551, 3741657, 3872983,
       4000000, 4123106, 4242641, 4358899, 4472136, 4582576, 4690416, 4795832,
       4898979, 5000000, 5099020, 5196152, 5291503, 5385165, 5477226, 5567764,
       5656854, 5744563, 5830952, 5916080, 6000000, 6082763, 6164414, 6244998,
       6324555, 6403124, 6480741, 6557439, 6633250, 6708204, 6782330, 6855655,
       6928203, 7000000, 7071068, 7141428, 7211103, 7280110, 7348469, 7416198,
       7483315, 7549834, 7615773, 7681146, 7745967, 7810250, 7874008, 7937254,
       8000000, 8062258, 8124038, 8185353, 8246211, 8306624, 8366600, 8426150,
       8485281, 8544004, 8602325, 8660254, 8717798, 8774964, 8831761, 8888194,
       8944272, 9000000, 9055385, 9110434, 9165151, 9219544, 9273618, 9327379,
       9380832, 9433981, 9486833, 9539392, 9591663, 9643651, 9695360, 9746794,
       9797959, 9848858, 9899495, 9949874, 10000000
    >>

\* exp(-sqrt(d2) / 0.5) in millionths, for d2 = 0 .. 100.
ExpTable ==
    <<
       1000000, 135335, 59106, 31301, 18316, 11423, 7454, 5034,
       3493, 2479, 1792, 1316, 980, 738, 562, 432,
       335, 262, 206, 164, 130, 105, 84, 68,
       56, 45, 37, 31, 25, 21, 17, 15,
       12, 10, 9, 7, 6, 5, 4, 4,
       3, 3, 2, 2, 2, 1, 1, 1,
       1, 1, 1, 1, 1, 0, 0, 0,
       0, 0, 0, 0, 0, 0, 0, 0,
       0, 0, 0, 0, 0, 0, 0, 0,
       0, 0, 0, 0, 0, 0, 0, 0,
       0, 0, 0, 0, 0, 0, 0, 0,
       0, 0, 0, 0, 0, 0, 0, 0,
       0, 0, 0, 0, 0
    >>

Abs(x) == IF x < 0 THEN -x ELSE x

D2(a, b) == (a[1] - b[1]) * (a[1] - b[1]) + (a[2] - b[2]) * (a[2] - b[2])

Sqrt(d2) == SqrtTable[d2 + 1]

SetMin(S) == CHOOSE x \in S : \A y \in S : x <= y

\* -------------------------------------------------------------------- grid
Cells(sh) == (0 .. sh[1] - 1) \X (0 .. sh[2] - 1)

\* lats[i] and lons[j]: strictly increasing samples, two half steps apart.
lats(i) == 2 * i
lons(j) == 2 * j

\* np.abs(arr - x).argmin(): the first index of a minimal element.
argmin_abs(n, x) ==
    CHOOSE i \in 0 .. n - 1 :
        \A j \in 0 .. n - 1 :
            /\ Abs(2 * i - x) <= Abs(2 * j - x)
            /\ (j < i => Abs(2 * i - x) < Abs(2 * j - x))

\* grid = np.where(np.isnan(subset.water_u.values), 1, 0)
MakeGrid(sh, un, vn) == [c \in Cells(sh) |-> IF c \in un THEN 1 ELSE 0]

\* safety_map = np.exp(-distance_transform_edt(1 - grid) / 0.5): a land cell
\* has distance 0, a water cell the distance to the nearest land cell.
MakeSafety(sh, g) ==
    LET land == {c \in Cells(sh) : g[c] = 1}
    IN  [c \in Cells(sh) |->
            IF g[c] = 1 THEN ExpTable[1]
            ELSE ExpTable[SetMin({D2(c, l) : l \in land}) + 1]]

\* ---------------------------------------------------------------- resolver
\* np.unravel_index(k, grid.shape)
unravel_index(k, sh) == <<k \div sh[2], k % sh[2]>>

\* A scan that keeps the last minimal index instead of the first.
argmin_last(d, n) ==
    CHOOSE k \in 0 .. n - 1 :
        \A j \in 0 .. n - 1 : d[k] <= d[j] /\ (j > k => d[k] < d[j])

\* np.argmin over a flattened array d of n elements: the first minimal index.
argmin(d, n) ==
    CHOOSE k \in 0 .. n - 1 :
        \A j \in 0 .. n - 1 : d[k] <= d[j] /\ (j < k => d[k] < d[j])

\* get_water_idx(iy, ix), closing over grid
get_water_idx(sh, g, iy, ix) ==
    IF g[<<iy, ix>>] = 0 THEN <<iy, ix>>
    ELSE LET n == sh[1] * sh[2]
             dists == [k \in 0 .. n - 1 |->
                          IF g[unravel_index(k, sh)] = 1 THEN Masked
                          ELSE Sqrt(D2(unravel_index(k, sh), <<iy, ix>>))]
         IN  unravel_index(argmin(dists, n), sh)

\* ------------------------------------------------------------ astar_search
neighbors ==
    << <<0, 1>>, <<0, -1>>, <<1, 0>>, <<-1, 0>>,
       <<1, 1>>, <<1, -1>>, <<-1, 1>>, <<-1, -1>> >>

\* The bounds test alone, without the obstacle test.
PassableInBounds(sh, g, n) ==
    /\ 0 <= n[1] /\ n[1] < sh[1]
    /\ 0 <= n[2] /\ n[2] < sh[2]

\* The bounds test of line 39 and the obstacle test of line 40.
Passable(sh, g, n) ==
    /\ 0 <= n[1] /\ n[1] < sh[1]
    /\ 0 <= n[2] /\ n[2] < sh[2]
    /\ g[n] # 1

\* dist = 1.414 if i != 0 and j != 0 else 1.0
StepDist(d) == IF d[1] # 0 /\ d[2] # 0 THEN DiagStep ELSE OrthStep

\* safety_cost = safety_map[neighbor] * 1.5
SafetyCost(sm, n) == (sm[n] * 3) \div 2

\* np.linalg.norm(np.array(neighbor) - np.array(goal))
Heuristic(n, goal) == Sqrt(D2(n, goal))

\* Python's order on the tuples (f, (row, col)) kept in the heap.
TupleLess(a, b) ==
    \/ a[1] < b[1]
    \/ /\ a[1] = b[1]
       /\ \/ a[2][1] < b[2][1]
          \/ a[2][1] = b[2][1] /\ a[2][2] < b[2][2]

\* A stable queue: the earliest inserted entry among those of minimal f.
HeapMinStable(hp) ==
    CHOOSE i \in 1 .. Len(hp) :
        \A j \in 1 .. Len(hp) :
            j # i => hp[i][1] < hp[j][1] \/ (hp[i][1] = hp[j][1] /\ i < j)

\* heapq.heappop removes the smallest entry; this is its position.
HeapMin(hp) ==
    CHOOSE i \in 1 .. Len(hp) :
        \A j \in 1 .. Len(hp) : j # i => TupleLess(hp[i], hp[j])

Remove(hp, i) == SubSeq(hp, 1, i - 1) \o SubSeq(hp, i + 1, Len(hp))

\* The for loop of lines 37-48 from the k-th neighbour on; st carries
\* came_from, g_score and the heap.
RECURSIVE ExpandFrom(_, _, _, _, _, _, _)
ExpandFrom(k, cur, goal, sh, g, sm, st) ==
    IF k > Len(neighbors) THEN st
    ELSE LET d == neighbors[k]
             n == <<cur[1] + d[1], cur[2] + d[2]>>
         IN  IF ~Passable(sh, g, n)
             THEN ExpandFrom(k + 1, cur, goal, sh, g, sm, st)
             ELSE LET tentative_g == st.gs[cur] + StepDist(d) + SafetyCost(sm, n)
                  IN  IF n \notin DOMAIN st.gs \/ tentative_g < st.gs[n]
                      THEN ExpandFrom(k + 1, cur, goal, sh, g, sm,
                               [cf |-> (n :> cur) @@ st.cf,
                                gs |-> (n :> tentative_g) @@ st.gs,
                                hp |-> Append(st.hp,
                                         <<tentative_g + Heuristic(n, goal), n>>)])
                      ELSE ExpandFrom(k + 1, cur, goal, sh, g, sm, st)

\* Lines 32-36: follow came_from back from the goal, then reverse.
RECURSIVE WalkBack(_, _)
WalkBack(cf, cur) ==
    IF cur \in DOMAIN cf THEN <<cur>> \o WalkBack(cf, cf[cur]) ELSE <<>>

Reverse(s) == [i \in 1 .. Len(s) |-> s[Len(s) + 1 - i]]

Reconstruct(cf, cur) == Reverse(WalkBack(cf, cur))

\* The sample of the resolved goal cell in place of the requested goal.
PathLonSnapped(slon, p, elon) ==
    <<slon>> \o [i \in 1 .. Len(p) |-> lons(p[i][2])] \o <<lons(p[Len(p)][2])>>

\* Lines 82-83: the requested coordinate, the samples of the cells, the
\* requested coordinate.
PathLon(slon, p, elon) ==
    <<slon>> \o [i \in 1 .. Len(p) |-> lons(p[i][2])] \o <<elon>>

PathLat(slat, p, elat) ==
    <<slat>> \o [i \in 1 .. Len(p) |-> lats(p[i][1])] \o <<elat>>

\* ------------------------------------------------------------------ inputs
\* Sets of at most k cells.
RECURSIVE UpTo(_, _)
UpTo(S, k) ==
    IF k = 0 THEN {{}}
    ELSE LET P == UpTo(S, k - 1) IN P \cup {T \cup {c} : T \in P, c \in S}

\* Requested coordinates: every half step of the window.
HalfSteps(n) == 0 .. 2 * (n - 1)

\* Requested coordinates that coincide with a sample.
Samples(n) == {2 * i : i \in 0 .. n - 1}

InitWith(sh, masks, starts, goals) ==
    /\ shape = sh
    /\ \E m \in masks : u_nan = m[1] /\ v_nan = m[2]
    /\ \E s \in starts : s_lat = s[1] /\ s_lon = s[2]
    /\ \E e \in goals : e_lat = e[1] /\ e_lon = e[2]
    /\ grid = <<>> /\ safety_map = <<>>
    /\ iy_s = -1 /\ ix_s = -1 /\ iy_e = -1 /\ ix_e = -1
    /\ s_idx = <<>> /\ e_idx = <<>>
    /\ oheap = <<>> /\ came_from = <<>> /\ g_score = <<>>
    /\ popped = <<>> /\ current = <<>> /\ closed = {}
    /\ path_indices = <<>> /\ path_lon = <<>> /\ path_lat = <<>>
    /\ outcome = "none"
    /\ pc = "grid"

\* Both velocity components share one land mask (as in the HYCOM product).
\* The mask has at least one land cell: the safety map of a window without
\* land is left to the distance transform of the library.
SameMasks(lands) == {<<l, l>> : l \in lands \ {{}}}

\* Fields with up to MaxLand land cells, and the field that is all land; a
\* start anywhere in the window, a goal on any sample.
Init ==
    LET sh == <<Rows, Cols>>
    IN  InitWith(sh, SameMasks(UpTo(Cells(sh), MaxLand) \cup {Cells(sh)}),
                 HalfSteps(Rows) \X HalfSteps(Cols),
                 Samples(Rows) \X Samples(Cols))

\* Larger fields with a single land cell on the first row, or with one row
\* of land from side to side; requests on the samples.
InitDeep ==
    LET sh == <<DeepRows, DeepCols>>
        wall(r) == {c \in Cells(sh) : c[1] = r}
    IN  InitWith(sh, SameMasks({{<<0, j>>} : j \in 0 .. DeepCols - 1}
                                 \cup {wall(r) : r \in 0 .. DeepRows - 1}),
                 Samples(DeepRows) \X Samples(DeepCols),
                 Samples(DeepRows) \X Samples(DeepCols))

\* Fields whose two components differ in at most one cell; requests between
\* the corners of the window.
InitField ==
    LET sh == <<Rows, Cols>>
        lands == UpTo(Cells(sh), MaxLand) \ {{}}
        extra == UpTo(Cells(sh), 1)
    IN  InitWith(sh, {<<l, l \cup x>> : l \in lands, x \in extra}
                       \cup {<<l \cup x, l>> : l \in lands, x \in extra},
                 {0, 2 * (Rows - 1)} \X {0, 2 * (Cols - 1)},
                 {0, 2 * (Rows - 1)} \X {0, 2 * (Cols - 1)})

\* ----------------------------------------------------------------- actions
\* Lines 61-64.
BuildGrid ==
    /\ pc = "grid"
    /\ grid' = MakeGrid(shape, u_nan, v_nan)
    /\ safety_map' = MakeSafety(shape, grid')
    /\ pc' = "resolve"
    /\ UNCHANGED <<shape, u_nan, v_nan, s_lon, s_lat, e_lon, e_lat,
                   iy_s, ix_s, iy_e, ix_e, s_idx, e_idx, oheap, came_from,
                   g_score, popped, current, closed, path_indices,
                   path_lon, path_lat, outcome>>

\* Lines 67-68 and 78, and the call of astar_search up to its loop
\* (lines 79, 25-28).
Resolve ==
    /\ pc = "resolve"
    /\ iy_s' = argmin_abs(shape[1], s_lat)
    /\ ix_s' = argmin_abs(shape[2], s_lon)
    /\ iy_e' = argmin_abs(shape[1], e_lat)
    /\ ix_e' = argmin_abs(shape[2], e_lon)
    /\ s_idx' = get_water_idx(shape, grid, iy_s', ix_s')
    /\ e_idx' = get_water_idx(shape, grid, iy_e', ix_e')
    /\ oheap' = << <<0, s_idx'>> >>
    /\ came_from' = <<>>
    /\ g_score' = (s_idx' :> 0)
    /\ pc' = "loop"
    /\ UNCHANGED <<shape, u_nan, v_nan, s_lon, s_lat, e_lon, e_lat, grid,
                   safety_map, popped, current, closed, path_indices,
                   path_lon, path_lat, outcome>>

\* Lines 29-30: the heap is not empty, pop its smallest entry.
Pop ==
    /\ pc = "loop"
    /\ oheap # <<>>
    /\ LET i == HeapMin(oheap)
       IN  /\ popped' = oheap[i]
           /\ current' = oheap[i][2]
           /\ oheap' = Remove(oheap, i)
    /\ pc' = "popped"
    /\ UNCHANGED <<shape, u_nan, v_nan, s_lon, s_lat, e_lon, e_lat, grid,
                   safety_map, iy_s, ix_s, iy_e, ix_e, s_idx, e_idx,
                   came_from, g_score, closed, path_indices, path_lon,
                   path_lat, outcome>>

\* Lines 29 and 49: the heap is empty, return [].
Exhausted ==
    /\ pc = "loop"
    /\ oheap = <<>>
    /\ path_indices' = <<>>
    /\ pc' = "report"
    /\ UNCHANGED <<shape, u_nan, v_nan, s_lon, s_lat, e_lon, e_lat, grid,
                   safety_map, iy_s, ix_s, iy_e, ix_e, s_idx, e_idx, oheap,
                   came_from, g_score, popped, current, closed, path_lon,
                   path_lat, outcome>>

\* Lines 31-36: the goal was popped, return the reconstructed path.
ReachGoal ==
    /\ pc = "popped"
    /\ current = e_idx
    /\ path_indices' = Reconstruct(came_from, current)
    /\ pc' = "report"
    /\ UNCHANGED <<shape, u_nan, v_nan, s_lon, s_lat, e_lon, e_lat, grid,
                   safety_map, iy_s, ix_s, iy_e, ix_e, s_idx, e_idx, oheap,
                   came_from, g_score, popped, current, closed, path_lon,
                   path_lat, outcome>>

\* Lines 37-48: another cell was popped, relax its eight neighbours.
Expand ==
    /\ pc = "popped"
    /\ current # e_idx
    /\ LET st == ExpandFrom(1, current, e_idx, shape, grid, safety_map,
                            [cf |-> came_from, gs |-> g_score, hp |-> oheap])
       IN  /\ came_from' = st.cf
           /\ g_score' = st.gs
           /\ oheap' = st.hp
    /\ closed' = closed \cup {current}
    /\ pc' = "loop"
    /\ UNCHANGED <<shape, u_nan, v_nan, s_lon, s_lat, e_lon, e_lat, grid,
                   safety_map, iy_s, ix_s, iy_e, ix_e, s_idx, e_idx, popped,
                   current, path_indices, path_lon, path_lat, outcome>>

\* Lines 81-111: a non-empty list is drawn and reported as a success, an
\* empty one as "Path not found".
Report ==
    /\ pc = "report"
    /\ IF path_indices # <<>>
       THEN /\ path_lon' = PathLon(s_lon, path_indices, e_lon)
            /\ path_lat' = PathLat(s_lat, path_indices, e_lat)
            /\ outcome' = "success"
       ELSE /\ outcome' = "not_found"
            /\ UNCHANGED <<path_lon, path_lat>>
    /\ pc' = "done"
    /\ UNCHANGED <<shape, u_nan, v_nan, s_lon, s_lat, e_lon, e_lat, grid,
                   safety_map, iy_s, ix_s, iy_e, ix_e, s_idx, e_idx, oheap,
                   came_from, g_score, popped, current, closed,
                   path_indices>>

Next ==
    \/ BuildGrid
    \/ Resolve
    \/ Pop
    \/ Exhausted
    \/ ReachGoal
    \/ Expand
    \/ Report

Spec == Init /\ [][Next]_vars

SpecDeep == InitDeep /\ [][Next]_vars

SpecField == InitField /\ [][Next]_vars

\* ------------------------------------------------ notions of the claims
Searched == pc \in {"loop", "popped", "report", "done"}

Returned == pc \in {"report", "done"}

Water == {c \in Cells(shape) : grid[c] = 0}

Adjacent(a, b) == a # b /\ Abs(a[1] - b[1]) <= 1 /\ Abs(a[2] - b[2]) <= 1

\* Cells joined to the cells of S by a chain of 8-adjacent water cells.
RECURSIVE Region(_)
Region(S) ==
    LET T == S \cup {c \in Water : \E b \in S : Adjacent(b, c)}
    IN  IF T = S THEN S ELSE Region(T)

Connected(a, b) == b \in Region({a})

\* Cost of entering water cell c from the adjacent cell b.
StepCost(b, c) ==
    StepDist(<<c[1] - b[1], c[2] - b[2]>>) + SafetyCost(safety_map, c)

Far == 1000 * OrthStep

\* Cheapest cost from a to every water cell, by exhaustive relaxation.
RECURSIVE Cheapest(_)
Cheapest(d) ==
    LET e == [c \in Water |->
                 SetMin({d[c]} \cup
                        {d[b] + StepCost(b, c) :
                             b \in {q \in Water : Adjacent(q, c) /\ d[q] < Far}})]
    IN  IF e = d THEN d ELSE Cheapest(e)

MinCost(a, b) == Cheapest([c \in Water |-> IF c = a THEN 0 ELSE Far])[b]

\* Cost of the route that starts at a and enters the cells of p in turn.
RECURSIVE RouteCost(_, _)
RouteCost(a, p) ==
    IF p = <<>> THEN 0 ELSE StepCost(a, Head(p)) + RouteCost(Head(p), Tail(p))

\* p leads from a to b over 8-adjacent cells.
IsRoute(a, p, b) ==
    /\ IF p = <<>> THEN a = b ELSE Adjacent(a, p[1]) /\ p[Len(p)] = b
    /\ \A i \in 1 .. Len(p) - 1 : Adjacent(p[i], p[i + 1])

\* The predecessor chain that ends in cur, its first cell included.
RECURSIVE ChainTo(_, _)
ChainTo(cf, cur) ==
    IF cur \in DOMAIN cf THEN Append(ChainTo(cf, cf[cur]), cur) ELSE <<cur>>

CoordsOf(p) == [i \in 1 .. Len(p) |-> <<lats(p[i][1]), lons(p[i][2])>>]

Output == [i \in 1 .. Len(path_lat) |-> <<path_lat[i], path_lon[i]>>]

CellBefore(a, b) == a[1] < b[1] \/ (a[1] = b[1] /\ a[2] <= b[2])

\* ------------------------------------------------------------------ claims
\* C1: whenever a route of 8-adjacent water cells joins the start and the
\* goal cell, the sequence astar_search returns is such a route and costs
\* no more than the cheapest route found by exhaustive enumeration.
C1_Optimal ==
    (Returned /\ grid[s_idx] = 0 /\ grid[e_idx] = 0 /\ Connected(s_idx, e_idx))
        => /\ IsRoute(s_idx, path_indices, e_idx)
           /\ RouteCost(s_idx, path_indices) <= MinCost(s_idx, e_idx)

\* C2: no cell of a returned path, and no interior point of the plotted
\* path, is an obstacle cell.
C2_PathSafety ==
    /\ Returned => \A i \in 1 .. Len(path_indices) : grid[path_indices[i]] = 0
    /\ outcome = "success" =>
           \A i \in 2 .. Len(path_lat) - 1 :
               grid[<<path_lat[i] \div 2, path_lon[i] \div 2>>] = 0

C2_Witness ==
    /\ outcome = "success"
    /\ grid[<<iy_s, ix_s>>] = 1
    /\ Len(path_indices) >= 2
    /\ \E i \in 1 .. Len(path_indices) :
           \E l \in Cells(shape) : grid[l] = 1 /\ Adjacent(l, path_indices[i])

\* C3 as stated: on success the output is the requested start, the samples
\* of the predecessor chain from the resolved start cell through the
\* resolved goal cell, and the requested goal.
C3_ChainFromStart ==
    outcome = "success" =>
        /\ Output = <<(<<s_lat, s_lon>>)>> \o CoordsOf(ChainTo(came_from, e_idx))
                        \o <<(<<e_lat, e_lon>>)>>
        /\ Len(Output) >= 2

\* C3 as amended: on success the output is the requested start, the samples
\* of the predecessor chain after the resolved start cell through the
\* resolved goal cell, and the requested goal; its first element is the
\* requested start, its last the requested goal, and it has at least two
\* elements.
C3_ChainAfterStart ==
    outcome = "success" =>
        LET chain == ChainTo(came_from, e_idx)
        IN  /\ chain[1] = s_idx
            /\ Output = <<(<<s_lat, s_lon>>)>> \o CoordsOf(Tail(chain))
                            \o <<(<<e_lat, e_lon>>)>>
            /\ Output[1] = <<s_lat, s_lon>>
            /\ Output[Len(Output)] = <<e_lat, e_lon>>
            /\ Len(Output) >= 2

C3_Witness ==
    /\ outcome = "success"
    /\ s_idx # <<iy_s, ix_s>>
    /\ <<s_lat, s_lon>> # <<lats(iy_s), lons(ix_s)>>
    /\ Len(path_indices) >= 2

\* C4: when the resolved start and goal are the same water cell, the plan
\* succeeds with a path of two elements, both that coordinate, at cost 0 and
\* without expanding any cell.
C4_StartEqualsGoal ==
    (pc = "done" /\ s_idx = e_idx /\ grid[s_idx] = 0)
        => /\ outcome = "success"
           /\ Len(Output) = 2
           /\ g_score[e_idx] = 0
           /\ closed = {}

\* C5: when every cell is an obstacle no search is attempted and the outcome
\* is no_navigable_region; and astar_search is never handed an obstacle cell.
C5_NoNavigableRegion ==
    /\ (pc # "grid" /\ Water = {})
           => /\ pc \notin {"loop", "popped"}
              /\ (pc = "done" => outcome = "no_navigable_region")
    /\ Searched => grid[s_idx] = 0 /\ grid[e_idx] = 0

\* C6: a search between two water cells ends with the heap empty and the
\* no-path result when no chain of water cells joins them, and by popping
\* the goal and returning a path when one does.
C6_Exhaustion ==
    (Returned /\ grid[s_idx] = 0 /\ grid[e_idx] = 0)
        => IF Connected(s_idx, e_idx)
           THEN current = e_idx /\ path_indices # <<>>
           ELSE oheap = <<>> /\ path_indices = <<>>

\* C7: in a grid with a water cell, get_water_idx returns a water query
\* unchanged, and otherwise a water cell at the least Euclidean index
\* distance from the query, the one of lowest row, then lowest column, among
\* those at that distance.
ResolvedTo(q, r) ==
    IF grid[q] = 0 THEN r = q
    ELSE /\ r \in Water
         /\ \A w \in Water :
                /\ Sqrt(D2(q, r)) <= Sqrt(D2(q, w))
                /\ Sqrt(D2(q, r)) = Sqrt(D2(q, w)) => CellBefore(r, w)

C7_Resolver ==
    (Searched /\ Water # {})
        => /\ ResolvedTo(<<iy_s, ix_s>>, s_idx)
           /\ ResolvedTo(<<iy_e, ix_e>>, e_idx)

C7_Witness ==
    /\ Searched
    /\ grid[<<iy_s, ix_s>>] = 1
    /\ \E w \in Water \ {s_idx} : D2(<<iy_s, ix_s>>, w) = D2(<<iy_s, ix_s>>, s_idx)

\* C8: a cell is marked as an obstacle exactly when the eastward or the
\* northward component is missing there, so no cell with a missing
\* component is searched from or entered.
C8_GridIffUndefined ==
    pc # "grid" =>
        /\ \A c \in Cells(shape) : grid[c] = 1 <=> (c \in u_nan \/ c \in v_nan)
        /\ Searched /\ Water # {} => s_idx \notin v_nan /\ e_idx \notin v_nan
        /\ \A i \in 1 .. Len(path_indices) : path_indices[i] \notin v_nan

\* C9: once a cell is closed, no step lowers its g_score, changes its
\* predecessor or puts it back into the heap.
C9_ClosedFinal ==
    [][\A c \in closed :
           /\ g_score'[c] = g_score[c]
           /\ (c \in DOMAIN came_from') = (c \in DOMAIN came_from)
           /\ c \in DOMAIN came_from => came_from'[c] = came_from[c]
           /\ \A i \in 1 .. Len(oheap') :
                  oheap'[i][2] = c => \E j \in 1 .. Len(oheap) : oheap[j] = oheap'[i]
      ]_vars

\* C10 as stated: every pop removes an entry of minimal f, and among the
\* entries of minimal f the one inserted first.
C10_InsertionOrder ==
    [][(pc = "loop" /\ pc' = "popped") =>
           \E i \in 1 .. Len(oheap) :
               /\ oheap[i] = popped'
               /\ oheap' = Remove(oheap, i)
               /\ \A j \in 1 .. Len(oheap) :
                      /\ oheap[i][1] <= oheap[j][1]
                      /\ oheap[i][1] = oheap[j][1] => i <= j
      ]_vars

\* C10 as amended: every pop removes an entry of minimal f, and among the
\* entries of minimal f the one whose cell has the lowest row, then the
\* lowest column, whatever the order of insertion.
C10_LowestCell ==
    [][(pc = "loop" /\ pc' = "popped") =>
           \E i \in 1 .. Len(oheap) :
               /\ oheap[i] = popped'
               /\ oheap' = Remove(oheap, i)
               /\ \A j \in 1 .. Len(oheap) :
                      /\ oheap[i][1] <= oheap[j][1]
                      /\ oheap[i][1] = oheap[j][1] => CellBefore(oheap[i][2], oheap[j][2])
      ]_vars

C10_Witness ==
    /\ pc = "popped"
    /\ \E i \in 1 .. Len(oheap) :
           /\ oheap[i][1] = popped[1]
           /\ \A j \in 1 .. Len(oheap) : oheap[i][1] <= oheap[j][1]

====
